---- MODULE Spec2Model ----
(***************************************************************************)
(* Model of generator/post.go: the post assembler (newPost, getMeta,       *)
(* getHTML, getImages), the code highlighter (replaceCodeParts), the       *)
(* output step (PostGenerator.Generate, copyImagesDir) and the ordering    *)
(* ByDateDesc.  Each entry point has its own specification.                *)
(***************************************************************************)
EXTENDS Integers, Sequences, FiniteSets, TLC

\* ------------------------------------------------------------- bounds
MaxLines == 4   \* newline-terminated lines of post.md
MaxFiles == 3   \* entries of an images directory
MaxElems == 2   \* matched code elements of a document
MaxPosts == 3   \* posts handed to the sort
MaxDate  == 2   \* distinct non-zero dates

VARIABLES
  \* ---- newPost / getMeta / getHTML / getImages
  pc,        \* position in newPost
  content,   \* bytes of post.md (empty when the file does not exist)
  openOk,    \* whether os.Open succeeds
  avail,     \* bytes the file delivers before its read ends
  endErr,    \* how the file's read ends: "EOF" or an I/O error "EIO"
  file,      \* the handle returned by os.Open: "nil", "open" or "closed"
  err,       \* newPost's err variable
  pos,       \* bytes consumed from br
  line,      \* getMeta's line
  rerr,      \* getMeta's err after the last ReadString
  buf,       \* getMeta's buf
  meta,      \* the Meta getMeta returned, or NoMeta
  input,     \* the bytes getHTML read
  inputErr,  \* the error of getHTML's ReadAll, assigned to _
  html,      \* newPost's html
  ret,       \* what newPost returned
  \* ---- replaceCodeParts
  hpc, elems, orig, asErr, ei, hret,
  \* ---- Generate / copyImagesDir
  gpc, post, files, fi, log, gret,
  \* ---- ByDateDesc under sort.Sort
  spc, p, p0, si, sj

postVars == <<pc, content, openOk, avail, endErr, file, err, pos, line, rerr,
              buf, meta, input, inputErr, html, ret>>
hlVars   == <<hpc, elems, orig, asErr, ei, hret>>
genVars  == <<gpc, post, files, fi, log, gret>>
sortVars == <<spc, p, p0, si, sj>>
vars     == <<postVars, hlVars, genVars, sortVars>>

\* A step of one component leaves the other components alone.
PostOnly == UNCHANGED <<hlVars, genVars, sortVars>>
HLOnly   == UNCHANGED <<postVars, genVars, sortVars>>
GenOnly  == UNCHANGED <<postVars, hlVars, sortVars>>
SortOnly == UNCHANGED <<postVars, hlVars, genVars>>

\* ------------------------------------------------------------- bytes
NL    == "\n"
Fence == <<"-", "-", "-">>

Min(S) == CHOOSE x \in S : \A y \in S : x <= y

\* strings.HasPrefix
HasPrefix(s, prefix) ==
  Len(s) >= Len(prefix) /\ SubSeq(s, 1, Len(prefix)) = prefix

\* The line bodies and the unterminated tails documents are built from.
LinePool == { Fence, Fence \o <<"a">>, <<"a", "a">>, <<"-">> }
TailPool == { <<>>, <<"a", "a">>, Fence }

RECURSIVE Flatten(_)
Flatten(ls) ==
  IF ls = <<>> THEN <<>> ELSE Head(ls) \o <<NL>> \o Flatten(Tail(ls))

Docs ==
  { Flatten(ls) \o t :
      ls \in UNION { [1..m -> LinePool] : m \in 0..MaxLines }, t \in TailPool }

\* Zero value of time.Time is 0; real dates are 1..MaxDate.
ZeroDate == 0
Dates    == 0..MaxDate

NoMeta == [none |-> TRUE]
NoPost == [none |-> TRUE]
NoErr  == <<>>

\* Directory listings: ioutil.ReadDir returns the entries sorted by file
\* name.  Names[x] is the x-th file name in that order.
Names    == [x \in 1..MaxFiles |-> <<"img", x>>]
Listings ==
  { s \in UNION { [1..m -> 1..Len(Names)] : m \in 0..MaxFiles } :
      \A x, y \in DOMAIN s : x < y => s[x] < s[y] }
FileNames(s) == [x \in DOMAIN s |-> Names[s[x]]]

\* ------------------------------------------------------------- bufio
\* The error a read reports once the delivered bytes are used up.
EndOfRead == IF file = "nil" THEN "EINVAL" ELSE endErr
Limit     == IF file = "nil" THEN 0 ELSE avail

\* bufio.Reader.ReadString('\n') from position `from`.
ReadString(from) ==
  LET nls == { x \in (from + 1)..Limit : content[x] = NL } IN
  IF nls # {}
    THEN LET e == Min(nls) IN
         [line |-> SubSeq(content, from + 1, e), err |-> "nil",
          pos |-> e]
    ELSE [line |-> SubSeq(content, from + 1, Limit), err |-> EndOfRead,
          pos |-> Limit]

\* A read of the file itself, past br: the bytes br has buffered are lost.
ReadAllUnbuffered(from) == [data |-> <<>>, err |-> "nil"]

\* ioutil.ReadAll(br) from position `from`: EOF is not an error.
ReadAll(from) ==
  [data |-> SubSeq(content, from + 1, Limit),
   err  |-> IF EndOfRead = "EOF" THEN "nil" ELSE EndOfRead]

\* ------------------------------------------------------------- newPost
NoRet == [post |-> NoPost, err |-> NoErr]

InitPost ==
  /\ pc = "open"
  /\ openOk \in BOOLEAN
  /\ content \in (IF openOk THEN Docs ELSE {<<>>})
  /\ endErr \in (IF openOk THEN {"EOF", "EIO"} ELSE {"EOF"})
  /\ avail \in (IF endErr = "EOF" THEN {Len(content)} ELSE 0..Len(content))
  /\ file = "nil"
  /\ err = NoErr
  /\ pos = 0
  /\ line = <<>>
  /\ rerr = "nil"
  /\ buf = <<>>
  /\ meta = NoMeta
  /\ input = <<>>
  /\ inputErr = "nil"
  /\ html = <<>>
  /\ ret = NoRet

IdlePost ==
  /\ pc = "idle"
  /\ openOk = FALSE
  /\ content = <<>>
  /\ endErr = "EOF"
  /\ avail = 0
  /\ file = "nil"
  /\ err = NoErr
  /\ pos = 0
  /\ line = <<>>
  /\ rerr = "nil"
  /\ buf = <<>>
  /\ meta = NoMeta
  /\ input = <<>>
  /\ inputErr = "nil"
  /\ html = <<>>
  /\ ret = NoRet

\* What os.Open hands back as the handle.  The handle is never closed in
\* newPost: no action changes file after Open.
OpenHandle == IF openOk THEN "open" ELSE "nil"

\* newPost lines 70-72.
Open ==
  /\ PostOnly
  /\ pc = "open"
  /\ file' = OpenHandle
  /\ err' = IF openOk THEN NoErr ELSE <<"open", "post.md", "ENOENT">>
  /\ pc' = "firstLine"
  /\ UNCHANGED <<content, openOk, avail, endErr, pos, line, rerr, buf, meta,
                 input, inputErr, html, ret>>

\* newPost lines 73-76 when getMeta returned (nil, e).
MetaFail(e) ==
  /\ err' = e
  /\ ret' = [post |-> NoPost,
             err |-> <<"error parsing meta in", "post.md">> \o e]
  /\ pc' = "done"
  /\ UNCHANGED <<meta, input, inputErr, html>>

\* The first line judged as the header loop judges its lines: the fence
\* looked for whatever the read reported.
FirstLineErrLenient(r) ==
  IF ~HasPrefix(r.line, Fence) THEN <<"error in can not find ---">>
  ELSE IF r.err \notin {"nil", "EOF"} THEN <<"error ReadString", r.err>>
  ELSE NoErr

\* getMeta lines 113-120: the error the first line ends getMeta with.
FirstLineErr(r) ==
  IF r.err # "nil" THEN <<"error ReadString", r.err>>
  ELSE IF ~HasPrefix(r.line, Fence) THEN <<"error in can not find ---">>
  ELSE NoErr

\* getMeta lines 112-120: the first line.
FirstLine ==
  /\ PostOnly
  /\ pc = "firstLine"
  /\ LET r == ReadString(pos) IN
       /\ line' = r.line
       /\ rerr' = r.err
       /\ pos' = r.pos
       /\ IF FirstLineErr(r) # NoErr
            THEN MetaFail(FirstLineErr(r))
            ELSE /\ pc' = "header"
                 /\ UNCHANGED <<err, ret, meta, input, inputErr, html>>
  /\ UNCHANGED <<content, openOk, avail, endErr, file, buf>>

\* getMeta lines 123-135: one iteration of the header loop.
HeaderRead ==
  /\ PostOnly
  /\ pc = "header"
  /\ LET r == ReadString(pos) IN
       /\ line' = r.line
       /\ rerr' = r.err
       /\ pos' = r.pos
       /\ IF r.err # "nil" /\ r.err # "EOF"
            THEN /\ MetaFail(<<"error ReadString", r.err>>)
                 /\ UNCHANGED buf
            ELSE IF HasPrefix(r.line, Fence)
              THEN /\ pc' = "decode"
                   /\ UNCHANGED <<buf, err, ret, meta, input, inputErr, html>>
              ELSE /\ buf' = buf \o r.line
                   /\ pc' = "header"
                   /\ UNCHANGED <<err, ret, meta, input, inputErr, html>>
  /\ UNCHANGED <<content, openOk, avail, endErr, file>>

\* getMeta lines 136-151: decode the header, parse the date.
Decode ==
  /\ PostOnly
  /\ pc = "decode"
  /\ \/ /\ Len(buf) < 3
        /\ MetaFail(<<"error ReadAll", "nil">>)
     \/ /\ Len(buf) >= 3
        /\ MetaFail(<<"error reading yml", "yaml">>)
     \/ /\ Len(buf) >= 3
        /\ \E d \in Dates :
             meta' = [h |-> buf, ParsedDate |-> d]
        /\ err' = NoErr
        /\ pc' = "html"
        /\ UNCHANGED <<ret, input, inputErr, html>>
  /\ UNCHANGED <<content, openOk, avail, endErr, file, pos, line, rerr, buf>>

\* blackfriday.MarkdownCommon: the HTML of these bytes.
MarkdownCommon(bytes) == [md |-> bytes]

\* The input getHTML renders: what ReadAll returned, its error dropped.
RenderInput(a) == a.data

\* newPost lines 77-80 and getHTML lines 173-181.
GetHTML ==
  /\ PostOnly
  /\ pc = "html"
  /\ LET a == ReadAll(pos) IN
       /\ input' = RenderInput(a)
       /\ inputErr' = a.err
       /\ pos' = pos + Len(a.data)
       /\ \/ /\ html' = MarkdownCommon(RenderInput(a))
             /\ pc' = "images"
             /\ UNCHANGED <<err, ret>>
          \/ \E e \in {"error while parsing html", "error while generating html"} :
               /\ err' = <<"error during syntax highlighting", e>>
               /\ ret' = [post |-> NoPost, err |-> err']
               /\ pc' = "done"
               /\ UNCHANGED html
  /\ UNCHANGED <<content, openOk, avail, endErr, file, line, rerr, buf, meta>>

\* newPost lines 81-87 and getImages lines 183-197.
GetImages ==
  /\ PostOnly
  /\ pc = "images"
  /\ \/ /\ err' = NoErr
        /\ ret' = [post |-> [Name |-> "base", Meta |-> meta, HTML |-> html,
                             ImagesDir |-> "", Images |-> <<>>],
                   err |-> NoErr]
     \/ /\ err' = <<"error while reading folder", "images", "EACCES">>
        /\ ret' = [post |-> NoPost, err |-> err']
     \/ \E fs \in Listings :
          /\ err' = NoErr
          /\ ret' = [post |-> [Name |-> "base", Meta |-> meta, HTML |-> html,
                               ImagesDir |-> "images", Images |-> FileNames(fs)],
                     err |-> NoErr]
  /\ pc' = "done"
  /\ UNCHANGED <<content, openOk, avail, endErr, file, pos, line, rerr, buf,
                 meta, input, inputErr, html>>

NextPost == Open \/ FirstLine \/ HeaderRead \/ Decode \/ GetHTML \/ GetImages

\* ------------------------------------------------------------- replaceCodeParts
\* The plain texts of the code elements the selector matches.
Texts == {"t1", "t2", "t3"}
Tags  == {"<span>", "</span>"}

IsText(x) == x \notin Tags

\* goquery Selection.Text(): the element's content without its markup.
Text(c) == SelectSeq(c, IsText)

\* syntaxhighlight.AsHTML: the text wrapped in spans, or (nil, err).
AsHTML(src, fails) ==
  IF fails THEN [out |-> <<>>, err |-> "scan"]
  ELSE [out |-> <<"<span>">> \o src \o <<"</span>">>, err |-> "nil"]

\* What the callback hands to SetHtml: formatted, whatever err was.
NewContent(oldCode, r) == r.out

InitHL ==
  /\ hpc = "parse"
  /\ orig \in UNION { [1..m -> Texts] : m \in 0..MaxElems }
  /\ elems = [x \in DOMAIN orig |-> <<orig[x]>>]
  /\ asErr = <<>>
  /\ ei = 1
  /\ hret = [html |-> <<>>, err |-> "pending"]

IdleHL ==
  /\ hpc = "idle"
  /\ orig = <<>>
  /\ elems = <<>>
  /\ asErr = <<>>
  /\ ei = 1
  /\ hret = [html |-> <<>>, err |-> "pending"]

\* replaceCodeParts lines 200-204.
ParseHTML ==
  /\ HLOnly
  /\ hpc = "parse"
  /\ \/ /\ hpc' = "each"
        /\ UNCHANGED hret
     \/ /\ hpc' = "done"
        /\ hret' = [html |-> <<>>, err |-> "error while parsing html"]
  /\ UNCHANGED <<elems, orig, asErr, ei>>

\* replaceCodeParts lines 206-210: the callback on one matched element.
EachCode ==
  /\ HLOnly
  /\ hpc = "each"
  /\ ei <= Len(elems)
  /\ \E fails \in BOOLEAN :
       LET oldCode   == Text(elems[ei])
           formatted == AsHTML(oldCode, fails)
       IN /\ elems' = [elems EXCEPT ![ei] = NewContent(oldCode, formatted)]
          /\ asErr' = Append(asErr, formatted.err)
  /\ ei' = ei + 1
  /\ UNCHANGED <<hpc, orig, hret>>

\* replaceCodeParts lines 211-218.
Serialize ==
  /\ HLOnly
  /\ hpc = "each"
  /\ ei > Len(elems)
  /\ \/ hret' = [html |-> elems, err |-> "nil"]
     \/ hret' = [html |-> <<>>, err |-> "error while generating html"]
  /\ hpc' = "done"
  /\ UNCHANGED <<elems, orig, asErr, ei>>

NextHL == ParseHTML \/ EachCode \/ Serialize

\* ------------------------------------------------------------- Generate
PostsToGenerate ==
  { [ImagesDir |-> "", Images |-> <<>>] } \cup
  { [ImagesDir |-> "images", Images |-> FileNames(fs)] : fs \in Listings }

InitGen ==
  /\ gpc = "mkdir"
  /\ post \in PostsToGenerate
  /\ files = <<>>
  /\ fi = 1
  /\ log = <<>>
  /\ gret = "pending"

IdleGen ==
  /\ gpc = "idle"
  /\ post = [ImagesDir |-> "", Images |-> <<>>]
  /\ files = <<>>
  /\ fi = 1
  /\ log = <<>>
  /\ gret = "pending"

Ev(op, arg, ok) == [op |-> op, arg |-> arg, ok |-> ok]

\* A Generate that copies the images of every post.
WantsCopyAlways(q) == TRUE

\* Generate line 56: whether the images are copied.
WantsCopy(q) == q.ImagesDir # ""

\* Generate lines 53-56.
GenMkdir ==
  /\ GenOnly
  /\ gpc = "mkdir"
  /\ \E ok \in BOOLEAN :
       /\ log' = Append(log, Ev("Mkdir", "staticPath", ok))
       /\ IF ~ok
            THEN /\ gret' = "error creating directory"
                 /\ gpc' = "done"
            ELSE /\ gpc' = IF WantsCopy(post) THEN "copyMkdir" ELSE "write"
                 /\ UNCHANGED gret
  /\ UNCHANGED <<post, files, fi>>

\* copyImagesDir lines 91-94.
CopyMkdir ==
  /\ GenOnly
  /\ gpc = "copyMkdir"
  /\ \E ok \in BOOLEAN :
       /\ log' = Append(log, Ev("Mkdir", "images", ok))
       /\ IF ~ok
            THEN /\ gret' = "error creating images directory"
                 /\ gpc' = "done"
            ELSE /\ gpc' = "readDir"
                 /\ UNCHANGED gret
  /\ UNCHANGED <<post, files, fi>>

\* copyImagesDir lines 99, 106 and Generate line 57: the loop's position
\* after fi-1 entries, and the return to Generate when none is left.
LoopPc(fs, at) == IF at <= Len(fs) THEN "copy" ELSE "write"

\* copyImagesDir lines 95-98.
CopyReadDir ==
  /\ GenOnly
  /\ gpc = "readDir"
  /\ \/ \E fs \in Listings :
          /\ files' = FileNames(fs)
          /\ log' = Append(log, Ev("ReadDir", post.ImagesDir, TRUE))
          /\ gpc' = LoopPc(files', 1)
          /\ UNCHANGED gret
     \/ /\ log' = Append(log, Ev("ReadDir", post.ImagesDir, FALSE))
        /\ gret' = "error reading directory"
        /\ gpc' = "done"
        /\ UNCHANGED files
  /\ fi' = 1
  /\ UNCHANGED post

\* A loop that goes on to the next entry whatever copyFile returned.
AfterCopyGoOn(ok, fs, at) == LoopPc(fs, at + 1)

\* copyImagesDir lines 102-104: where the loop goes after one copyFile.
AfterCopy(ok, fs, at) == IF ~ok THEN "done" ELSE LoopPc(fs, at + 1)

\* copyImagesDir lines 99-105: one iteration of the copy loop.
CopyFile ==
  /\ GenOnly
  /\ gpc = "copy"
  /\ fi <= Len(files)
  /\ \E ok \in BOOLEAN :
       /\ log' = Append(log, Ev("copyFile", files[fi], ok))
       /\ gpc' = AfterCopy(ok, files, fi)
       /\ gret' = IF ok THEN gret ELSE "error copying file"
  /\ fi' = fi + 1
  /\ UNCHANGED <<post, files>>

\* Generate lines 62-66.
WriteIndex ==
  /\ GenOnly
  /\ gpc = "write"
  /\ \E ok \in BOOLEAN :
       /\ log' = Append(log, Ev("WriteIndexHTML", "staticPath", ok))
       /\ gret' = IF ok THEN "nil" ELSE "error writing index"
  /\ gpc' = "done"
  /\ UNCHANGED <<post, files, fi>>

NextGen == GenMkdir \/ CopyMkdir \/ CopyReadDir \/ CopyFile \/ WriteIndex

\* ------------------------------------------------------------- ByDateDesc
\* time.Time.Before
Before(t, u) == t < u

\* time.Time.After
After(t, u) == t > u

\* ByDateDesc.Len, Swap, Less (indices from 1).
PLen(q) == Len(q)
Swap(q, a, b) == [q EXCEPT ![a] = q[b], ![b] = q[a]]
Less(q, a, b) == After(q[a].Meta.ParsedDate, q[b].Meta.ParsedDate)

PostsToSort ==
  { [x \in DOMAIN ds |-> [Name |-> x, Meta |-> [ParsedDate |-> ds[x]]]] :
      ds \in UNION { [1..m -> Dates] : m \in 0..MaxPosts } }

InitSort ==
  /\ spc = "outer"
  /\ p0 \in PostsToSort
  /\ p = p0
  /\ si = 2
  /\ sj = 2

IdleSort ==
  /\ spc = "idle"
  /\ p0 = <<>>
  /\ p = <<>>
  /\ si = 2
  /\ sj = 2

\* sort.Sort on a short slice is insertionSort(data, 0, data.Len()):
\*   for i := a + 1; i < b; i++ {
\*     for j := i; j > a && data.Less(j, j-1); j-- { data.Swap(j, j-1) } }
Outer ==
  /\ SortOnly
  /\ spc = "outer"
  /\ IF si <= PLen(p)
       THEN /\ sj' = si
            /\ spc' = "inner"
       ELSE /\ spc' = "done"
            /\ UNCHANGED sj
  /\ UNCHANGED <<p, p0, si>>

InnerSwap ==
  /\ SortOnly
  /\ spc = "inner"
  /\ sj > 1
  /\ Less(p, sj, sj - 1)
  /\ p' = Swap(p, sj, sj - 1)
  /\ sj' = sj - 1
  /\ UNCHANGED <<spc, p0, si>>

InnerExit ==
  /\ SortOnly
  /\ spc = "inner"
  /\ ~(sj > 1 /\ Less(p, sj, sj - 1))
  /\ si' = si + 1
  /\ spc' = "outer"
  /\ UNCHANGED <<p, p0, sj>>

NextSort == Outer \/ InnerSwap \/ InnerExit

\* ------------------------------------------------------------- specifications
\* Each specification runs one entry point; the other components stay idle.
PostInit == InitPost /\ IdleHL /\ IdleGen /\ IdleSort
SpecPost == PostInit /\ [][NextPost]_vars

HLInit == IdlePost /\ InitHL /\ IdleGen /\ IdleSort
SpecHL == HLInit /\ [][NextHL]_vars

GenInit == IdlePost /\ IdleHL /\ InitGen /\ IdleSort
SpecGen == GenInit /\ [][NextGen]_vars

SortInit == IdlePost /\ IdleHL /\ IdleGen /\ InitSort
SpecSort == SortInit /\ [][NextSort]_vars

\* ------------------------------------------------------------- claims
Range(q) == { q[x] : x \in DOMAIN q }

\* The first line of post.md as written: up to and with its newline, or
\* the whole file when it holds no newline.
HasNewline(bytes) == \E x \in DOMAIN bytes : bytes[x] = NL
FirstNewline(bytes) == Min({ x \in DOMAIN bytes : bytes[x] = NL })
FirstLineOf(bytes) ==
  IF HasNewline(bytes) THEN SubSeq(bytes, 1, FirstNewline(bytes)) ELSE bytes

\* x starts a line of post.md.
LineStart(x) == x = 1 \/ (x - 1 \in DOMAIN content /\ content[x - 1] = NL)
FenceAt(x) == HasPrefix(SubSeq(content, x, Len(content)), Fence)

\* post.md is well formed: an opening fence line ending at OpenEnd, the
\* first later fence line starting at CloseStart and ending with its
\* newline at CloseEnd; the body is what follows.
FenceStarts(from) ==
  { x \in (from + 1)..Len(content) : LineStart(x) /\ FenceAt(x) }
NewlinesFrom(from) == { x \in from..Len(content) : content[x] = NL }
OpenEnd    == FirstNewline(content)
CloseStart == Min(FenceStarts(OpenEnd))
CloseEnd   == Min(NewlinesFrom(CloseStart))
WellFormed ==
  /\ HasNewline(content) /\ FenceAt(1)
  /\ FenceStarts(OpenEnd) # {}
  /\ NewlinesFrom(CloseStart) # {}
HeaderBytes == SubSeq(content, OpenEnd + 1, CloseStart - 1)
BodyBytes   == SubSeq(content, CloseEnd + 1, Len(content))

Readable == openOk /\ endErr = "EOF"

\* C1: when the stream ends before a closing fence, the header loop of
\* getMeta stops: control is never back at the top of the loop after a
\* read that reported end of stream.
C1_LoopStopsAtEOF == ~(pc = "header" /\ rerr = "EOF")

\* C2: when newPost has returned, the post.md handle it opened is no
\* longer open.
C2_HandleReleased == pc = "done" => file # "open"

\* C3: when post.md cannot be opened, newPost returns no Post and an error
\* that carries the open failure's cause and the path.
C3_OpenFailureReported ==
  (pc = "done" /\ ~openOk) =>
    /\ ret.post = NoPost
    /\ "post.md" \in Range(ret.err)
    /\ "ENOENT" \in Range(ret.err)

\* C4: newPost returns either an error and no Post, or a Post and no
\* error; a Post is returned only when every step succeeded, the read of
\* the body bytes included.
C4_AllOrNothing ==
  pc = "done" =>
    /\ (ret.post = NoPost) <=> (ret.err # NoErr)
    /\ ret.post # NoPost => (openOk /\ inputErr = "nil")

\* C6 as claimed: every non-empty stream whose first line does not begin with the
\* fence makes getMeta return the missing-fence error and no Meta.
C6_AlwaysMissingFence ==
  (pc \notin {"open", "firstLine"} /\ Readable /\ content # <<>>
     /\ ~HasPrefix(FirstLineOf(content), Fence)) =>
    /\ pc = "done" /\ meta = NoMeta /\ ret.post = NoPost
    /\ err = <<"error in can not find ---">>

\* C6 as amended: a first line that ends with a newline and does not begin
\* with the fence gives the missing-fence error; a stream that ends before
\* any newline gives the read error with EOF; no Meta in either case.
C6_MissingFenceOrReadError ==
  (pc \notin {"open", "firstLine"} /\ Readable
     /\ ~HasPrefix(FirstLineOf(content), Fence)) =>
    /\ pc = "done" /\ meta = NoMeta /\ ret.post = NoPost
    /\ err = IF HasNewline(content)
               THEN <<"error in can not find ---">>
               ELSE <<"error ReadString", "EOF">>
    /\ ret.err = <<"error parsing meta in", "post.md">> \o err

C6_Witness ==
  /\ pc = "done" /\ Readable
  /\ content = <<"a", "a">>
  /\ err = <<"error ReadString", "EOF">>

\* C7: on a well-formed post.md the header loop ends right after the
\* closing fence line with exactly the lines between the fences in buf,
\* the decoder gets those lines, and getHTML reads exactly the bytes after
\* the closing fence line.
C7_HeaderThenBody ==
  (Readable /\ WellFormed) =>
    /\ pc \in {"decode", "html"} => (pos = CloseEnd /\ buf = HeaderBytes)
    /\ meta # NoMeta => meta.h = HeaderBytes
    /\ (meta # NoMeta /\ pc \in {"images", "done"}) => input = BodyBytes
    /\ pc = "images" => html = MarkdownCommon(BodyBytes)
    /\ ret.post # NoPost => ret.post.HTML = MarkdownCommon(BodyBytes)

C7_Witness ==
  /\ pc = "done" /\ Readable /\ WellFormed
  /\ ret.post # NoPost
  /\ Len(BodyBytes) > 3 /\ Len(HeaderBytes) >= 3

\* ---- copyImagesDir and Generate
\* The post being generated has an images directory.
HasImagesDir == post.ImagesDir # ""
IsCopy(ev) == ev.op = "copyFile"
Copies == SelectSeq(log, IsCopy)
InCopyStage(ev) == ev \in { Ev("Mkdir", "images", TRUE), Ev("Mkdir", "images", FALSE) }
                   \/ ev.op \in {"ReadDir", "copyFile"}
CopyReturnedNil == HasImagesDir /\ (gpc = "write" \/ \E x \in DOMAIN log : log[x].op = "WriteIndexHTML")

\* C8: copyImagesDir creates the images directory before any copy, copies
\* the listed entries in listing order, stops at the first failed copy
\* with that error, copies nothing when the directory cannot be created,
\* and has copied every entry exactly once when it returns nil.
C8_CopyFailFast ==
  /\ \A y \in DOMAIN log : IsCopy(log[y]) =>
       \E x \in 1..(y - 1) : log[x] = Ev("Mkdir", "images", TRUE)
  /\ Len(Copies) <= Len(files)
  /\ \A x \in DOMAIN Copies : Copies[x].arg = files[x]
  /\ \A x \in DOMAIN Copies : ~Copies[x].ok =>
       (x = Len(Copies) /\ gpc = "done" /\ gret = "error copying file")
  /\ Ev("Mkdir", "images", FALSE) \in Range(log) =>
       (Copies = <<>> /\ gret = "error creating images directory")
  /\ CopyReturnedNil =>
       (Len(Copies) = Len(files) /\ \A x \in DOMAIN Copies : Copies[x].ok)

C8_Witness ==
  /\ gpc = "done" /\ Len(files) = 3
  /\ Len(Copies) = 2 /\ Copies[1].ok /\ ~Copies[2].ok

\* C10: Generate creates the destination directory first, copies images
\* only after that and only for a non-empty ImagesDir, writes the index
\* page only after both succeeded, returns nil only when the index page
\* was written, and attempts nothing after a failed step.
C10_GenerateOrder ==
  /\ log # <<>> => (log[1].op = "Mkdir" /\ log[1].arg = "staticPath")
  /\ \A x \in DOMAIN log : ~log[x].ok =>
       (x = Len(log) /\ gpc = "done" /\ gret \notin {"nil", "pending"})
  /\ \A x \in DOMAIN log : InCopyStage(log[x]) =>
       (HasImagesDir /\ x > 1 /\ log[1].ok)
  /\ \A x \in DOMAIN log : log[x].op = "WriteIndexHTML" =>
       /\ x = Len(log) /\ log[1].ok
       /\ IF HasImagesDir
            THEN /\ Ev("Mkdir", "images", TRUE) \in Range(log)
                 /\ Len(Copies) = Len(files)
                 /\ \A y \in DOMAIN Copies : Copies[y].ok
            ELSE x = 2
  /\ gret = "nil" =>
       (log # <<>> /\ log[Len(log)] = Ev("WriteIndexHTML", "staticPath", TRUE))
  /\ gpc = "done" => gret # "pending"

C10_Witness ==
  /\ gret = "nil" /\ HasImagesDir /\ Len(files) >= 2
  /\ Len(log) = Len(files) + 4

\* ---- replaceCodeParts
\* C5: every element the callback has handled and whose highlighting
\* failed still has its original plain text as content.
C5_FailedKeepsText ==
  \A x \in DOMAIN asErr : asErr[x] # "nil" => elems[x] = <<orig[x]>>

\* ---- ByDateDesc
DateOf(q, x) == q[x].Meta.ParsedDate

\* C9: the sort leaves a permutation of the input, in non-increasing
\* ParsedDate order when it is done; Less(i, j) holds exactly when post
\* i's date is strictly later than post j's, so it is irreflexive and
\* never holds in both directions.
C9_SortedDescending ==
  /\ Len(p) = Len(p0) /\ Range(p) = Range(p0)
  /\ spc = "done" =>
       \A x \in 1..(Len(p) - 1) : DateOf(p, x) >= DateOf(p, x + 1)
  /\ \A x, y \in DOMAIN p :
       /\ Less(p, x, y) <=> DateOf(p, x) > DateOf(p, y)
       /\ ~Less(p, x, x)
       /\ ~(Less(p, x, y) /\ Less(p, y, x))

C9_Witness ==
  /\ spc = "done" /\ Len(p) = 3 /\ p # p0
  /\ DateOf(p, 1) = DateOf(p, 2) /\ DateOf(p, 3) = ZeroDate
  /\ DateOf(p, 2) > ZeroDate

====
